---- MODULE Spec2Model ----
(***************************************************************************)
(* Model of the Philips Hue monitor: the philipsHue class                  *)
(* (src/philipsHue.py) and its driver (src/main.py).                       *)
(*                                                                         *)
(* One Python process runs main(): it builds a philipsHue object           *)
(* (discovery, authentication, initial load of the lights) and then polls  *)
(* every light forever.  The bridge and the directory service are the      *)
(* environment: every reply they give is chosen nondeterministically.      *)
(*                                                                         *)
(* Python 3 semantics are assumed ("/" is true division, round() rounds    *)
(* half to even, dicts keep insertion order).                              *)
(*                                                                         *)
(* Time is counted in ticks of 0.2 s, the length of both sleeps of the     *)
(* program (time.sleep(0.2) and time.sleep(0.1 * poll_interval)).          *)
(***************************************************************************)
EXTENDS Integers, Sequences, FiniteSets, TLC

VARIABLES
    pc,            \* position of the process (see the actions)
    ip,            \* main.py global ip: candidate address (config file) or None
    user,          \* main.py global user: candidate username or None
    bridge_ip,     \* philipsHue.bridge_ip
    username,      \* philipsHue.username
    lights,        \* philipsHue.lights: dict id -> JSON text, in insertion order
    light_ids,     \* philipsHue.light_ids
    num_lights,    \* philipsHue.num_lights
    update_file,   \* philipsHue.update_file
    response,      \* the local `response` of the method the last step ran:
                   \* << the request it answers, its JSON body >>
    since_now,     \* get_username: ticks elapsed since `now` was taken
    since_poll,    \* main: ticks elapsed since last_poll (capped once > poll_interval)
    todo,          \* poll_lights: keys the `for i in lights` loop has not visited yet
    num_left,      \* poll_lights: its local num_lights
    events,        \* the changes the last step printed
    anomaly,       \* poll_lights printed 'Error: not all lights were updated'
    wire,          \* the request the last step sent to the network, or None
    reply,         \* how that request ended: "ok", "error_status",
                   \* "ConnectionError", or None
    sent,          \* kinds of request sent so far
    exit_msg       \* why the process terminated, or None while it runs

vars == << pc, ip, user, bridge_ip, username, lights, light_ids, num_lights,
           update_file, response, since_now, since_poll, todo, num_left,
           events, anomaly, wire, reply, sent, exit_msg >>

None == "None"

(***************************************************************************)
(* Program constants, in ticks of 0.2 s.                                   *)
(***************************************************************************)
\* philipsHue.timeout, in seconds
timeout == 15
\* main: poll_interval, in seconds
poll_interval == 2
\* time.sleep(0.2) of get_username, and time.sleep(0.1 * poll_interval) of main
SleepTicks == 1
TimeoutTicks == timeout * 5
PollTicks == poll_interval * 5

(***************************************************************************)
(* Bounds of the model.                                                    *)
(***************************************************************************)
\* longest time, in ticks, one registration request takes to be answered
MaxLatency == 1
\* largest id a direct call of update_light is made with
MaxCallId == 2

(***************************************************************************)
(* The values the environment draws from.                                  *)
(***************************************************************************)
\* the address of the configuration file; the directory service knows the
\* bridge at 192.168.1.3 (and another one at 192.168.1.4)
CandidateAddresses == {"192.168.1.2"}
CandidateUsers == {"olduser"}
NewUsers == {"newuser"}
Names == {"Lamp", "Desk"}
RawBri == {100, 200}

\* Light ids are strings of decimal digits, modelled as sequences of digits.
\* The bridge has no light, the light "1", or the lights "2" and "10" (as
\* strings "10" < "2", as numbers 2 < 10).
LightIdSets == { {}, { <<1>> }, { <<2>>, <<1, 0>> } }

(***************************************************************************)
(* Python built-ins used by the code.                                      *)
(***************************************************************************)
Min(a, b) == IF a < b THEN a ELSE b

\* Python's < on strings: lexicographic, a proper prefix is smaller.
RECURSIVE StrLess(_, _)
StrLess(a, b) ==
    IF b = <<>> THEN FALSE
    ELSE IF a = <<>> THEN TRUE
    ELSE IF Head(a) # Head(b) THEN Head(a) < Head(b)
    ELSE StrLess(Tail(a), Tail(b))

\* int(s) of a string of digits.
RECURSIVE int(_)
int(s) ==
    IF s = <<>> THEN 0
    ELSE 10 * int(SubSeq(s, 1, Len(s) - 1)) + s[Len(s)]

\* A faulty sort: the keys in ascending order of their numbers.
RECURSIVE sorted_numeric(_)
sorted_numeric(S) ==
    IF S = {} THEN <<>>
    ELSE LET m == CHOOSE x \in S : \A y \in S \ {x} : int(x) < int(y)
         IN  <<m>> \o sorted_numeric(S \ {m})

\* sorted(keys): the keys in ascending string order.
RECURSIVE sorted(_)
sorted(S) ==
    IF S = {} THEN <<>>
    ELSE LET m == CHOOSE x \in S : \A y \in S \ {x} : StrLess(x, y)
         IN  <<m>> \o sorted(S \ {m})

\* str(n) of a non-negative integer.
RECURSIVE str(_)
str(n) ==
    IF n < 10 THEN <<n>> ELSE str(n \div 10) \o <<n % 10>>

\* needle in text, for strings modelled as sequences of words.
IsSubstring(needle, text) ==
    \E i \in 0..(Len(text) - Len(needle)) :
        SubSeq(text, i + 1, i + Len(needle)) = needle

\* A faulty calc_brightness: "/" as the integer division of Python 2.
calc_brightness_floor(bri) == (100 * (bri - 1)) \div 253

\* A faulty calc_brightness: the quotient is rounded up.
calc_brightness_ceil(bri) ==
    LET n == 100 * (bri - 1)
    IN  IF n % 253 = 0 THEN n \div 253 ELSE n \div 253 + 1

\* calc_brightness: round(100 * (bri - 1) / 253), round() rounding half to even.
calc_brightness(bri) ==
    LET n == 100 * (bri - 1)
        q == n \div 253
        r == n % 253
    IN  IF 2 * r < 253 THEN q
        ELSE IF 2 * r > 253 THEN q + 1
        ELSE IF q % 2 = 0 THEN q ELSE q + 1

(***************************************************************************)
(* The store.  philipsHue.lights maps a light id to the JSON text of the   *)
(* one-key object {id: {name, reachable, id, on, brightness}}.  A Python   *)
(* dict is a sequence of <<key, value>> pairs in insertion order; the JSON *)
(* text of the object is the tuple of its key and its five values in the   *)
(* order the encoder writes them.                                          *)
(***************************************************************************)
dict_keys(d) == [n \in 1..Len(d) |-> d[n][1]]

dict_has(d, k) == \E n \in 1..Len(d) : d[n][1] = k

dict_get(d, k) == d[CHOOSE n \in 1..Len(d) : d[n][1] = k][2]

\* A faulty store: the value is stored under a key of its own.
dict_set_append(d, k, v) == Append(d, <<k, v>>)

\* d[k] = v: an existing key keeps its place, a new key goes last.
dict_set(d, k, v) ==
    IF dict_has(d, k)
    THEN [n \in 1..Len(d) |-> IF d[n][1] = k THEN <<k, v>> ELSE d[n]]
    ELSE Append(d, <<k, v>>)

\* json.JSONEncoder().encode(obj) and json.dumps(obj) of a one-key object
json_dumps(obj) ==
    LET k == CHOOSE k \in DOMAIN obj : TRUE
    IN  << k, obj[k].name, obj[k].reachable, obj[k].id, obj[k].on,
           obj[k].brightness >>

\* json.loads(text)
json_loads(text) ==
    text[1] :> [name |-> text[2], reachable |-> text[3], id |-> text[4],
                on |-> text[5], brightness |-> text[6]]

\* x in list, for a Python list
list_has(l, x) == \E n \in 1..Len(l) : l[n] = x

(***************************************************************************)
(* Replies of the environment.  A request fails at connection level        *)
(* (requests raises ConnectionError), or it is answered with an error      *)
(* status (raise_for_status() raises HTTPError) or with a good status      *)
(* (raise_for_status() returns None); an answer has a JSON body.           *)
(***************************************************************************)
Answers == { "ok", "error_status" }

\* Bodies of the directory lookup: a list of bridges, possibly empty.
NupnpBodies ==
    { <<>>,
      << [internalipaddress |-> "192.168.1.3"] >>,
      << [internalipaddress |-> "192.168.1.3"],
         [internalipaddress |-> "192.168.1.4"] >> }

\* Descriptions of the errors of the bridge, as sequences of words.
Unauthorized == << "unauthorized", "user" >>
LinkButton == << "link", "button", "not", "pressed" >>
InternalError == << "Internal", "error,", "404" >>

\* Bodies of GET /api/<username>/: a one-element list holding an error, or the
\* whole datastore of the bridge (an object of several keys); each as
\* << its JSON type, its value >>.
ValidationBodies ==
    { << "list", << [error |-> [description |-> d]] >> >> :
          d \in { Unauthorized, InternalError } }
    \cup { << "dict",
              [lights |-> "...", groups |-> "...", config |-> "..."] >> }

\* First element of the body of POST /api.
RegistrationObjects ==
    { [error |-> [description |-> d]] : d \in { LinkButton, InternalError } }
    \cup { [success |-> [username |-> u]] : u \in NewUsers }
    \cup { [success |-> [clientkey |-> "key"]] }

\* Body of GET /api/<username>/lights/<id>.
LightBodies ==
    [name : Names, state : [reachable : BOOLEAN, on : BOOLEAN, bri : RawBri]]

\* Bodies of GET /api/<username>/lights: light id -> light.
LightsBodies == UNION { [S -> LightBodies] : S \in LightIdSets }

(***************************************************************************)
(* Termination: sys.exit(message), or an exception nobody catches.         *)
(***************************************************************************)
NoResponse == "No response received from Bridge."
HTTPError == "Traceback: requests.exceptions.HTTPError"
ConnectionError == "Traceback: requests.exceptions.ConnectionError"
KeyError == "Traceback: KeyError"

\* the local `response`: << the request answered, the JSON body >>
Resp(api, json) == << api, json >>

\* no `response`: the step ran no method, or its request was not answered
NoResp == Resp("none", None)

\* the step sends request req, which ends as how
Send(req, how) ==
    /\ wire' = req
    /\ reply' = how
    /\ sent' = sent \cup {req}

\* the step sends nothing
Silent ==
    /\ wire' = None
    /\ reply' = None
    /\ UNCHANGED sent

\* the process terminates with message msg, resp being its local `response`
Exit(msg, resp) ==
    /\ pc' = "exit"
    /\ exit_msg' = msg
    /\ events' = <<>>
    /\ response' = resp
    /\ UNCHANGED << ip, user, bridge_ip, username, lights, light_ids, num_lights,
                    update_file, since_now, since_poll, todo, num_left,
                    anomaly >>

Init ==
    /\ pc = "init_ip"
    /\ ip \in CandidateAddresses \cup {None}
    /\ user \in CandidateUsers \cup {None}
    /\ bridge_ip = None
    /\ username = None
    /\ lights = <<>>
    /\ light_ids = <<>>
    /\ num_lights = 0
    /\ update_file = FALSE
    /\ response = NoResp
    /\ since_now = 0
    /\ since_poll = 0
    /\ todo = <<>>
    /\ num_left = 0
    /\ events = <<>>
    /\ anomaly = FALSE
    /\ wire = None
    /\ reply = None
    /\ sent = {}
    /\ exit_msg = None

(***************************************************************************)
(* Discovery: __init__ lines 32-39.                                        *)
(***************************************************************************)
\* validate_ip: True on any answer, False on ConnectionError
validate_ip(how) == how # "ConnectionError"

\* __init__ line 35: the candidate address is probed
ValidateIp ==
    /\ pc = "init_ip"
    /\ ip # None
    /\ \E how \in Answers \cup {"ConnectionError"} :
          /\ IF validate_ip(how)
             THEN /\ bridge_ip' = ip
                  /\ pc' = "init_user"
             ELSE /\ pc' = "get_bridge_ip"
                  /\ UNCHANGED bridge_ip
          /\ Send("probe", how)
    /\ UNCHANGED << ip, user, username, lights, light_ids, num_lights,
                    update_file, response, since_now, since_poll, todo,
                    num_left, events, anomaly, exit_msg >>

\* A faulty get_bridge_ip: an empty list of bridges falls back to an address.
get_bridge_ip_default(how, body) ==
    IF body = <<>>
    THEN [exit |-> None, addr |-> "192.168.1.3"]
    ELSE IF how # "ok"
    THEN [exit |-> HTTPError, addr |-> None]
    ELSE [exit |-> None, addr |-> body[1].internalipaddress]

\* A faulty get_bridge_ip: the address found is not kept.
get_bridge_ip_unset(how, body) ==
    IF body = <<>>
    THEN [exit |-> "No Hue Bridge found on current network.", addr |-> None]
    ELSE IF how # "ok"
    THEN [exit |-> HTTPError, addr |-> None]
    ELSE [exit |-> None, addr |-> None]

\* A faulty get_bridge_ip: the last bridge of the list instead of the first.
get_bridge_ip_last(how, body) ==
    IF body = <<>>
    THEN [exit |-> "No Hue Bridge found on current network.", addr |-> None]
    ELSE IF how # "ok"
    THEN [exit |-> HTTPError, addr |-> None]
    ELSE [exit |-> None, addr |-> body[Len(body)].internalipaddress]

\* get_bridge_ip lines 64-73, given an answered lookup: the exit message, or
\* None and the address found
get_bridge_ip(how, body) ==
    IF body = <<>>
    THEN [exit |-> "No Hue Bridge found on current network.", addr |-> None]
    ELSE IF how # "ok"
    THEN [exit |-> HTTPError, addr |-> None]
    ELSE [exit |-> None, addr |-> body[1].internalipaddress]

\* A faulty flag: set whenever the address or the username was obtained anew.
update_file_always(candidate, flag) == TRUE

\* __init__ lines 32-39 and 41-48: update_file once get_bridge_ip or
\* get_username has returned, candidate being the argument of __init__; it is
\* set in the else branches only, which a candidate that is None never enters
update_file_after(candidate, flag) == IF candidate # None THEN TRUE ELSE flag

\* __init__ line 33 or lines 38-39: the directory lookup
GetBridgeIp ==
    /\ \/ pc = "init_ip" /\ ip = None
       \/ pc = "get_bridge_ip"
    /\ \/ Exit(NoResponse, NoResp) /\ Send("nupnp", "ConnectionError")
       \/ \E how \in Answers, body \in NupnpBodies :
             LET r == get_bridge_ip(how, body)
             IN  /\ Send("nupnp", how)
                 /\ IF r.exit # None
                    THEN Exit(r.exit, Resp("nupnp", body))
                    ELSE /\ bridge_ip' = r.addr
                         /\ update_file' = update_file_after(ip, update_file)
                         /\ pc' = "init_user"
                         /\ response' = Resp("nupnp", body)
                         /\ UNCHANGED << ip, user, username, lights,
                                         light_ids, num_lights, since_now,
                                         since_poll, todo, num_left, events,
                                         anomaly, exit_msg >>

(***************************************************************************)
(* Authentication: __init__ lines 41-48.                                   *)
(***************************************************************************)
\* len(x) of a JSON list or object
json_len(j) == IF j[1] = "list" THEN Len(j[2]) ELSE Cardinality(DOMAIN j[2])

\* the object validate_user looks into (lines 141-144), when there is one
validated_object(body) ==
    IF json_len(body) = 1 THEN body[2][1] ELSE body[2]

\* 'error' in response (line 149): a key of an object; False for a list, whose
\* elements are no strings
has_error(body) ==
    /\ json_len(body) = 1 \/ body[1] = "dict"
    /\ "error" \in DOMAIN validated_object(body)

\* A faulty validate_user: a rejected username is fatal like any other error.
validate_user_fatal(how, body) ==
    IF how # "ok"
    THEN [exit |-> HTTPError, ret |-> FALSE]
    ELSE IF json_len(body) = 1 /\ body[1] = "dict"
    THEN [exit |-> KeyError, ret |-> FALSE]
    ELSE IF has_error(body)
    THEN [exit |-> "Error when validating username.", ret |-> FALSE]
    ELSE [exit |-> None, ret |-> TRUE]

\* A faulty validate_user: every error of the bridge asks for a new username.
validate_user_lenient(how, body) ==
    IF how # "ok"
    THEN [exit |-> HTTPError, ret |-> FALSE]
    ELSE IF json_len(body) = 1 /\ body[1] = "dict"
    THEN [exit |-> KeyError, ret |-> FALSE]
    ELSE IF has_error(body)
    THEN [exit |-> None, ret |-> FALSE]
    ELSE [exit |-> None, ret |-> TRUE]

\* validate_user lines 140-156, given an answered validation query: the exit
\* message, or None and the value returned
validate_user(how, body) ==
    IF how # "ok"
    THEN [exit |-> HTTPError, ret |-> FALSE]
    ELSE IF json_len(body) = 1 /\ body[1] = "dict"
    THEN [exit |-> KeyError, ret |-> FALSE]
    ELSE IF has_error(body)
    THEN IF IsSubstring(Unauthorized,
                        validated_object(body).error.description)
         THEN [exit |-> None, ret |-> FALSE]
         ELSE [exit |-> "Error when validating username.", ret |-> FALSE]
    ELSE [exit |-> None, ret |-> TRUE]

\* __init__ line 44: the candidate username is validated
ValidateUser ==
    /\ pc = "init_user"
    /\ user # None
    /\ \/ Exit(NoResponse, NoResp) /\ Send("validate", "ConnectionError")
       \/ \E how \in Answers, body \in ValidationBodies :
             LET r == validate_user(how, body)
             IN  /\ Send("validate", how)
                 /\ IF r.exit # None
                    THEN Exit(r.exit, Resp("validate", body))
                    ELSE /\ IF r.ret
                            THEN /\ username' = user
                                 /\ pc' = "get_lights"
                            ELSE /\ pc' = "get_username"
                                 /\ UNCHANGED username
                         /\ response' = Resp("validate", body)
                         /\ UNCHANGED << ip, user, bridge_ip, lights,
                                         light_ids, num_lights, update_file,
                                         since_now, since_poll, todo,
                                         num_left, events, anomaly, exit_msg >>

\* 'error' in response and the description names the link button (lines 96-97)
link_button_pending(resp) ==
    /\ "error" \in DOMAIN resp
    /\ IsSubstring(LinkButton, resp.error.description)

\* get_username lines 83-97: the first registration request
GetUsernamePost ==
    /\ \/ pc = "init_user" /\ user = None
       \/ pc = "get_username"
    /\ \/ Exit(NoResponse, NoResp) /\ Send("register", "ConnectionError")
       \/ \E resp \in RegistrationObjects :
             /\ response' = Resp("register", resp)
             /\ since_now' = 0
             /\ pc' = IF link_button_pending(resp)
                      THEN "get_username_while" ELSE "get_username_result"
             /\ Send("register", "ok")
             /\ UNCHANGED << ip, user, bridge_ip, username, lights, light_ids,
                             num_lights, update_file, since_poll, todo,
                             num_left, events, anomaly, exit_msg >>

\* A faulty loop condition: the timeout is not looked at.
keep_polling_forever(resp, elapsed) == "error" \in DOMAIN resp

\* the condition of the while loop (line 100)
keep_polling(resp, elapsed) == "error" \in DOMAIN resp /\ elapsed < TimeoutTicks

\* get_username lines 100-102: one turn of the loop, a request and a sleep.
\* The clock is not followed past the first tick after the timeout.
GetUsernamePoll ==
    /\ pc = "get_username_while"
    /\ keep_polling(response[2], since_now)
    /\ \/ Exit(ConnectionError, NoResp) /\ Send("register", "ConnectionError")
       \/ \E resp \in RegistrationObjects, latency \in 0..MaxLatency :
             /\ response' = Resp("register", resp)
             /\ since_now' = Min(since_now + latency + SleepTicks,
                                 TimeoutTicks + 1)
             /\ Send("register", "ok")
             /\ UNCHANGED << pc, ip, user, bridge_ip, username, lights,
                             light_ids, num_lights, update_file, since_poll,
                             todo, num_left, events, anomaly, exit_msg >>

\* get_username lines 104-111, given the last response: the username obtained,
\* or None
obtained_username(resp) ==
    IF "success" \in DOMAIN resp
    THEN IF "username" \in DOMAIN resp.success
         THEN resp.success.username
         ELSE None
    ELSE None

\* get_username lines 104-111, then __init__ line 48 if a candidate had been given
GetUsernameResult ==
    /\ \/ pc = "get_username_result"
       \/ pc = "get_username_while" /\ ~keep_polling(response[2], since_now)
    /\ Silent
    /\ IF obtained_username(response[2]) = None
       THEN Exit("No username obtained from Bridge.", response)
       ELSE /\ username' = obtained_username(response[2])
            /\ update_file' = update_file_after(user, update_file)
            /\ since_now' = 0
            /\ pc' = "get_lights"
            /\ UNCHANGED << ip, user, bridge_ip, lights, light_ids, num_lights,
                            response, since_poll, todo, num_left, events,
                            anomaly, exit_msg >>

(***************************************************************************)
(* Initial load: get_lights.                                               *)
(***************************************************************************)
\* the JSON text get_lights builds for light i (lines 176-184)
light_json(body, i) ==
    json_dumps(i :> [name       |-> body[i].name,
                     reachable  |-> body[i].state.reachable,
                     id         |-> i,
                     on         |-> body[i].state.on,
                     brightness |-> calc_brightness(body[i].state.bri)])

\* the loop of get_lights (lines 175-185) over the ids, from dict d
RECURSIVE store_lights(_, _, _)
store_lights(d, ids, body) ==
    IF ids = <<>> THEN d
    ELSE store_lights(dict_set(d, Head(ids), light_json(body, Head(ids))),
                      Tail(ids), body)

\* A faulty get_lights: num_lights is left at the default of the class.
get_lights_uncounted(d, body) ==
    LET ids == sorted(DOMAIN body)
    IN  [num_lights |-> 0,
         light_ids  |-> ids,
         lights     |-> store_lights(d, ids, body)]

\* lines 172-185: the fields get_lights sets from the body of the answer
get_lights(d, body) ==
    LET ids == sorted(DOMAIN body)
    IN  [num_lights |-> Cardinality(DOMAIN body),
         light_ids  |-> ids,
         lights     |-> store_lights(d, ids, body)]

\* __init__ line 50: the list of lights is fetched and stored; main then enters
\* its loop, last_poll being older by the time the construction took: less
\* than a tick, or more than poll_interval
GetLights ==
    /\ pc = "get_lights"
    /\ \/ Exit(NoResponse, NoResp) /\ Send("lights", "ConnectionError")
       \/ Exit(HTTPError, NoResp) /\ Send("lights", "error_status")
       \/ \E body \in LightsBodies, t \in {0, PollTicks + 1} :
             LET r == get_lights(lights, body)
             IN  /\ num_lights' = r.num_lights
                 /\ light_ids' = r.light_ids
                 /\ lights' = r.lights
                 /\ response' = Resp("lights", body)
                 /\ since_poll' = t
                 /\ pc' = "main_loop"
                 /\ Send("lights", "ok")
                 /\ UNCHANGED << ip, user, bridge_ip, username, update_file,
                                 since_now, todo, num_left, events, anomaly,
                                 exit_msg >>

(***************************************************************************)
(* The driver: main lines 104-109 and poll_lights.                         *)
(***************************************************************************)
\* A faulty test: a cycle is due whatever time has elapsed.
poll_due_at_once(elapsed) == elapsed >= 0

\* main line 105: time.time() - last_poll > poll_interval
poll_due(elapsed) == elapsed > PollTicks

\* main line 105 false, line 109: nothing to do but sleep
MainSleep ==
    /\ pc = "main_loop"
    /\ ~poll_due(since_poll)
    /\ since_poll' = since_poll + SleepTicks
    /\ response' = NoResp
    /\ events' = <<>>
    /\ Silent
    /\ UNCHANGED << pc, ip, user, bridge_ip, username, lights, light_ids,
                    num_lights, update_file, since_now, todo, num_left,
                    anomaly, exit_msg >>

\* main line 105 true, poll_lights lines 29-31: a cycle begins
PollStart ==
    /\ pc = "main_loop"
    /\ poll_due(since_poll)
    /\ num_left' = num_lights
    /\ todo' = dict_keys(lights)
    /\ pc' = "poll_lights"
    /\ response' = NoResp
    /\ events' = <<>>
    /\ Silent
    /\ UNCHANGED << ip, user, bridge_ip, username, lights, light_ids,
                    num_lights, update_file, since_now, since_poll, anomaly,
                    exit_msg >>

(***************************************************************************)
(* Reconciliation: update_light.                                           *)
(***************************************************************************)
\* one printed change, json.dumps({'id': light_id, key: val}), as
\* << light_id, key, val >>
Msg(light_id, key, val) == << light_id, key, val >>

\* the attributes update_light reads from the body (lines 214-219)
fetched(body) ==
    [reachable  |-> body.state.reachable,
     brightness |-> calc_brightness(body.state.bri),
     name       |-> body.name,
     on         |-> body.state.on]

\* A faulty reachable branch: the name is compared before the brightness.
reachable_lines_swapped(light_id, old, new) ==
    (IF new.reachable # old.reachable
     THEN << Msg(light_id, "reachable", new.reachable) >> ELSE <<>>)
    \o (IF new.name # old.name
        THEN << Msg(light_id, "name", new.name) >> ELSE <<>>)
    \o (IF new.brightness # old.brightness
        THEN << Msg(light_id, " brightness", new.brightness) >> ELSE <<>>)
    \o (IF new.on # old.on
        THEN << Msg(light_id, "on", new.on) >> ELSE <<>>)

\* lines 222-244: what the reachable branch prints, old being the stored light
reachable_lines(light_id, old, new) ==
    (IF new.reachable # old.reachable
     THEN << Msg(light_id, "reachable", new.reachable) >> ELSE <<>>)
    \o (IF new.brightness # old.brightness
        THEN << Msg(light_id, " brightness", new.brightness) >> ELSE <<>>)
    \o (IF new.name # old.name
        THEN << Msg(light_id, "name", new.name) >> ELSE <<>>)
    \o (IF new.on # old.on
        THEN << Msg(light_id, "on", new.on) >> ELSE <<>>)

\* lines 222-244: the light the reachable branch leaves in curr_light
reachable_light(old, new) ==
    [name       |-> IF new.name # old.name THEN new.name ELSE old.name,
     reachable  |-> IF new.reachable # old.reachable
                    THEN new.reachable ELSE old.reachable,
     id         |-> old.id,
     on         |-> IF new.on # old.on THEN new.on ELSE old.on,
     brightness |-> IF new.brightness # old.brightness
                    THEN new.brightness ELSE old.brightness]

\* A faulty unreachable branch: every attribute of the answer is stored.
unreachable_light_overwrite(old, body) ==
    [name       |-> body.name,
     reachable  |-> body.state.reachable,
     id         |-> old.id,
     on         |-> body.state.on,
     brightness |-> calc_brightness(body.state.bri)]

\* line 252: the light the unreachable branch leaves in curr_light
unreachable_light(old, body) ==
    [old EXCEPT !.reachable = body.state.reachable]

\* A faulty save: the changed light is not written back.
save_light_dropped(d, k, light, change_flag) == d

\* lines 246-247 and 253: the changed light is written back to the store
save_light(d, k, light, change_flag) ==
    IF change_flag THEN dict_set(d, k, json_dumps(k :> light)) ELSE d

\* update_light lines 201 and 214-253, given the stored dict d and the body of
\* the answer: the dict afterwards and the lines printed
update_light(d, light_id, body) ==
    LET k == str(light_id)
        curr_light == json_loads(dict_get(d, k))
        new == fetched(body)
    IN  IF body.state.reachable
        THEN LET lines == reachable_lines(light_id, curr_light[k], new)
             IN  [lights |-> save_light(d, k,
                                 reachable_light(curr_light[k], new),
                                 lines # <<>>),
                  events |-> lines]
        ELSE IF body.state.reachable # curr_light[k].reachable
        THEN [lights |-> save_light(d, k,
                             unreachable_light(curr_light[k], body), TRUE),
              \* 'Light %d unreachable. Data may be wrong.'
              events |-> << Msg(light_id, "unreachable",
                                body.state.reachable) >>]
        ELSE [lights |-> d, events |-> <<>>]

\* A faulty fetch: the status of the answer is not looked at.
fetch_light_unchecked(how) ==
    IF how = "ConnectionError" THEN NoResponse ELSE None

\* update_light lines 207-212: how the fetch of the light ends the process,
\* or None: get_response exits on a ConnectionError, raise_for_status()
\* raises HTTPError on an error status
fetch_light(how) ==
    IF how = "ConnectionError" THEN NoResponse
    ELSE IF how = "error_status" THEN HTTPError
    ELSE None

\* A faulty check: the id is looked for at the head of the list only.
valid_light_first(ids, light_id) == ids # <<>> /\ ids[1] = str(light_id)

\* update_light line 198: str(light_id) in self.light_ids
valid_light(ids, light_id) == list_has(ids, str(light_id))

\* a call update_light(light_id), lines 198-253; `returned` is what the caller
\* does of the same step once the call has returned
update_light_call(light_id, returned) ==
    IF ~valid_light(light_ids, light_id)
    THEN Exit("is not a valid light.", NoResp) /\ Silent
    ELSE \E how \in Answers \cup {"ConnectionError"} :
           /\ Send("light", how)
           /\ IF fetch_light(how) # None
              THEN Exit(fetch_light(how), NoResp)
              ELSE \E body \in LightBodies :
                     LET r == update_light(lights, light_id, body)
                     IN  /\ lights' = r.lights
                         /\ events' = r.events
                         /\ response' = Resp("light", body)
                         /\ returned
                         /\ UNCHANGED << ip, user, bridge_ip, username,
                                         light_ids, num_lights, update_file,
                                         since_now, since_poll, anomaly,
                                         exit_msg >>

\* poll_lights lines 31-33: update_light(int(i)) for the next key of the store
UpdateLight ==
    /\ pc = "poll_lights"
    /\ todo # <<>>
    /\ update_light_call(int(Head(todo)),
                         /\ num_left' = num_left - 1
                         /\ todo' = Tail(todo)
                         /\ UNCHANGED pc)

\* poll_lights lines 34-35, main lines 107 and 109: the cycle ends
PollEnd ==
    /\ pc = "poll_lights"
    /\ todo = <<>>
    /\ anomaly' = (num_left # 0)
    /\ since_poll' = SleepTicks
    /\ pc' = "main_loop"
    /\ response' = NoResp
    /\ events' = <<>>
    /\ Silent
    /\ UNCHANGED << ip, user, bridge_ip, username, lights, light_ids,
                    num_lights, update_file, since_now, todo, num_left,
                    exit_msg >>

Next ==
    \/ ValidateIp
    \/ GetBridgeIp
    \/ ValidateUser
    \/ GetUsernamePost
    \/ GetUsernamePoll
    \/ GetUsernameResult
    \/ GetLights
    \/ MainSleep
    \/ PollStart
    \/ UpdateLight
    \/ PollEnd

Spec == Init /\ [][Next]_vars

\* The class used by some other caller as well: when a cycle of main is due,
\* update_light is called with any id.
DirectCall ==
    /\ pc = "main_loop"
    /\ since_poll > PollTicks
    /\ \E light_id \in 0..MaxCallId :
          update_light_call(light_id, UNCHANGED << pc, todo, num_left >>)

NextApi == Next \/ DirectCall

ApiSpec == Init /\ [][NextApi]_vars

\* The process runs until it terminates: it is never suspended for ever, and
\* every request it sends is answered or fails.
FairSpec == Spec /\ WF_vars(Next)

(***************************************************************************)
(* Properties.                                                             *)
(***************************************************************************)
\* the snapshot stored for key k
stored(d, k) == json_loads(dict_get(d, k))[k]

\* the step is a call of update_light for the key Head(todo) whose fetch is
\* answered; response' is the body of the answer
UpdateStep ==
    /\ pc = "poll_lights"
    /\ todo # <<>>
    /\ wire' = "light"
    /\ reply' = "ok"

\* the state follows a call of update_light whose fetch was answered
Updated ==
    /\ pc = "poll_lights"
    /\ wire = "light"
    /\ reply = "ok"

\* the key that call was for
LastKey == lights[Len(lights) - Len(todo)][1]

\* the attribute a printed line is about
FieldOf(key) ==
    IF key = " brightness" THEN "brightness"
    ELSE IF key = "unreachable" THEN "reachable"
    ELSE key

Fields == << "reachable", "brightness", "name", "on" >>

\* the attributes named f of snapshots a and b differ
Differ(f, a, b) ==
    CASE f = "reachable"  -> a.reachable # b.reachable
      [] f = "brightness" -> a.brightness # b.brightness
      [] f = "name"       -> a.name # b.name
      [] f = "on"         -> a.on # b.on

\* line e carries the value of its attribute in snapshot a
Carries(e, a) ==
    CASE FieldOf(e[2]) = "reachable"  -> e[3] = a.reachable
      [] FieldOf(e[2]) = "brightness" -> e[3] = a.brightness
      [] FieldOf(e[2]) = "name"       -> e[3] = a.name
      [] FieldOf(e[2]) = "on"         -> e[3] = a.on

\* snapshots a and b agree on the four attributes update_light compares
SameAttributes(a, b) == \A n \in 1..4 : ~Differ(Fields[n], a, b)

\* C1: reconciling is idempotent.  Whenever a cycle is about to begin, for
\* every light of the store and every answer the bridge can give: if the fetched reachable, normalized brightness,
\* name and on equal the stored ones, update_light prints nothing and leaves
\* the store as it is; and whatever the answer, a second update_light of the
\* same light on the same answer prints nothing and changes nothing.
C1_Idempotent ==
    pc = "main_loop" /\ since_poll > PollTicks =>
    \A n \in 1..Len(lights) : \A body \in LightBodies :
        LET k == lights[n][1]
            r1 == update_light(lights, int(k), body)
            r2 == update_light(r1.lights, int(k), body)
        IN  /\ SameAttributes(fetched(body), stored(lights, k))
                => r1.events = <<>> /\ r1.lights = lights
            /\ r2.events = <<>>
            /\ r2.lights = r1.lights

\* C1 witness: update_light has just run for a light stored as unreachable, on
\* an answer equal to what is stored, and printed nothing.
C1_Witness ==
    /\ Updated
    /\ events = <<>>
    /\ ~stored(lights, LastKey).reachable
    /\ SameAttributes(fetched(response[2]), stored(lights, LastKey))

\* C2: update_light on an answer with reachable = false.  If the light is
\* stored as reachable, one line is printed, for reachable, the stored
\* reachable becomes false and the stored brightness, name and on stay as they
\* were, whatever the answer holds; if it is stored as unreachable already,
\* nothing is printed and the store is left as it is.
C2_Unreachable ==
    [][ UpdateStep /\ ~response'[2].state.reachable =>
          LET k == Head(todo)
              old == stored(lights, k)
          IN  IF old.reachable
              THEN /\ Len(events') = 1
                   /\ events'[1][1] = int(k)
                   /\ FieldOf(events'[1][2]) = "reachable"
                   /\ stored(lights', k) = [old EXCEPT !.reachable = FALSE]
              ELSE /\ events' = <<>>
                   /\ lights' = lights ]_vars

\* C2 witness: a light went from reachable to unreachable on an answer whose
\* brightness, name and on all differ from the stored ones.
C2_Witness ==
    /\ Updated
    /\ ~response[2].state.reachable
    /\ Len(events) = 1
    /\ LET s == stored(lights, LastKey)
           f == fetched(response[2])
       IN  /\ ~s.reachable
           /\ f.brightness # s.brightness
           /\ f.name # s.name
           /\ f.on # s.on

\* the attributes, in the order of Fields, on which a and b differ
DifferingFields(a, b) == SelectSeq(Fields, LAMBDA f : Differ(f, a, b))

\* C3: update_light on an answer with reachable = true prints one line per
\* attribute whose fetched value differs from the stored one, in the order
\* reachable, brightness, name, on, each line for this light and with the
\* fetched value; afterwards the stored snapshot equals the fetched attributes,
\* brightness normalized.
C3_Reachable ==
    [][ UpdateStep /\ response'[2].state.reachable =>
          LET k == Head(todo)
              old == stored(lights, k)
              new == fetched(response'[2])
          IN  /\ [n \in 1..Len(events') |-> FieldOf(events'[n][2])]
                    = DifferingFields(new, old)
              /\ \A n \in 1..Len(events') :
                    /\ events'[n][1] = int(k)
                    /\ Carries(events'[n], new)
              /\ SameAttributes(stored(lights', k), new)
              /\ stored(lights', k).id = k ]_vars

\* C3 witness: all four attributes changed in one pass, four lines printed.
C3_Witness ==
    /\ Updated
    /\ response[2].state.reachable
    /\ Len(events) = 4

\* line e carries the value of its attribute in snapshot a as its old value
CarriesOld(e, a) ==
    CASE FieldOf(e[2]) = "reachable"  -> e[3] = a.reachable
      [] FieldOf(e[2]) = "brightness" -> e[3] = a.brightness
      [] FieldOf(e[2]) = "name"       -> e[3] = a.name
      [] FieldOf(e[2]) = "on"         -> e[3] = a.on

\* line e carries the value of its attribute in snapshot a as its new value
CarriesNew(e, a) ==
    CASE FieldOf(e[2]) = "reachable"  -> e[4] = a.reachable
      [] FieldOf(e[2]) = "brightness" -> e[4] = a.brightness
      [] FieldOf(e[2]) = "name"       -> e[4] = a.name
      [] FieldOf(e[2]) = "on"         -> e[4] = a.on

\* the light "1" of the scenario: on, reachable, named Lamp, raw brightness bri
Lamp(bri) ==
    [name |-> "Lamp", state |-> [reachable |-> TRUE, on |-> TRUE, bri |-> bri]]

ValidateStep ==
    /\ pc = "init_user"
    /\ user # None
    /\ wire' = "validate"

\* body is the one-element list holding an error of description d
ErrorBody(body, d) ==
    /\ body[1] = "list"
    /\ Len(body[2]) = 1
    /\ "error" \in DOMAIN body[2][1]
    /\ body[2][1].error.description = d

\* body holds no error
NoErrorBody(body) ==
    body[1] = "dict" /\ "error" \notin DOMAIN body[2]

\* the process has terminated for good: no step leaves a terminated process
Terminal == [][pc # "exit"]_vars

\* C5: when the bridge answers the validation of a candidate username with
\* the error "unauthorized user", the process does not terminate, the
\* candidate does not become the username, and the next step is the first
\* registration request of get_username; the candidate is never the username
\* in use afterwards.
C5_Rejected ==
    /\ [][ ValidateStep /\ reply' = "ok" /\ ErrorBody(response'[2], Unauthorized)
             => /\ pc' = "get_username"
                /\ exit_msg' = None
                /\ username' = None ]_vars
    /\ [][ pc = "get_username" => wire' = "register" /\ username' = None ]_vars
    /\ [](user # None /\ "register" \in sent => username # user)

\* C5 witness: the candidate has just been rejected as unauthorized.
C5_Witness ==
    /\ pc = "get_username"
    /\ user # None
    /\ wire = "validate"
    /\ reply = "ok"
    /\ ErrorBody(response[2], Unauthorized)

\* C6: validating a candidate username ends in one of three ways.  No error in
\* the answer: the candidate is the username in use and the list of lights is
\* fetched next, no registration request being sent, then or later.  The error
\* "unauthorized user": get_username is next.  Anything else (another error,
\* an error status, no connection): the process terminates, and it has sent
\* no registration request, has loaded no light and polls nothing.
C6_Validation ==
    /\ [][ ValidateStep =>
             IF reply' = "ok" /\ NoErrorBody(response'[2])
             THEN /\ pc' = "get_lights"
                  /\ username' = user
                  /\ "register" \notin sent'
             ELSE IF reply' = "ok" /\ ErrorBody(response'[2], Unauthorized)
             THEN pc' = "get_username"
             ELSE /\ pc' = "exit"
                  /\ username' = None ]_vars
    /\ [](pc = "exit" /\ wire = "validate"
            => /\ sent \cap { "register", "lights", "light" } = {}
               /\ username = None
               /\ lights = <<>>)
    /\ [](user # None /\ username = user => "register" \notin sent)
    /\ Terminal

\* C6 witness: the process has terminated on another error of the bridge.
C6_Witness ==
    /\ pc = "exit"
    /\ wire = "validate"
    /\ reply = "ok"
    /\ ErrorBody(response[2], InternalError)

\* get_username is waiting in its loop, or about to look at the response
Pairing == pc \in { "get_username_while", "get_username_result" }

\* C7: the pairing flow terminates.  A started pairing ends: the process
\* terminates or holds a username.  While the responses are errors, once the
\* timeout has elapsed since the first response the next step sends no request
\* and terminates the process with no username, which then has fetched no list
\* of lights and polled nothing; once a response holds a username, the next
\* step sends no request and makes that username the one in use.
C7_PairingEnds ==
    /\ Pairing ~> (pc = "exit" \/ username # None)
    /\ [][ ( /\ pc = "get_username_while"
             /\ "error" \in DOMAIN response[2]
             /\ since_now >= TimeoutTicks )
           => /\ wire' = None
              /\ pc' = "exit"
              /\ username' = None ]_vars
    /\ [][ Pairing /\ obtained_username(response[2]) # None
             => /\ wire' = None
                /\ username' = response[2].success.username
                /\ pc' = "get_lights" ]_vars
    /\ [](pc = "exit" /\ exit_msg = "No username obtained from Bridge."
            => /\ username = None
               /\ lights = <<>>
               /\ sent \cap { "lights", "light" } = {})
    /\ Terminal

\* C7 witness: the link button was not pressed when the timeout elapsed, and
\* the process has terminated without a username.
C7_Witness ==
    /\ pc = "exit"
    /\ exit_msg = "No username obtained from Bridge."
    /\ since_now >= TimeoutTicks
    /\ link_button_pending(response[2])

\* C8 as stated: in the pairing flow every response, the first or a later
\* one, that holds an error other than "link button not pressed" is fatal at
\* once: the next step sends no registration request and terminates the
\* process.
C8_Original ==
    [][ ( /\ Pairing
          /\ "error" \in DOMAIN response[2]
          /\ ~link_button_pending(response[2]) )
        => /\ wire' # "register"
           /\ pc' = "exit" ]_vars

\* the step probes the candidate address
ProbeStep ==
    /\ pc = "init_ip"
    /\ ip # None
    /\ wire' = "probe"

\* C9: discovery.  A candidate address whose probe is answered, be it with an
\* error, is the address in use, and no lookup is sent.  A lookup is sent only
\* without a candidate or right after the probe of the candidate failed at
\* connection level, and when it succeeds the address in use is the one of
\* the first bridge of the list.
C9_Discovery ==
    /\ [][ ProbeStep =>
             IF reply' \in Answers
             THEN /\ bridge_ip' = ip
                  /\ pc' = "init_user"
                  /\ "nupnp" \notin sent'
             ELSE /\ bridge_ip' = None
                  /\ pc' = "get_bridge_ip" ]_vars
    /\ [][ wire' = "nupnp" =>
             /\ \/ ip = None /\ pc = "init_ip"
                \/ wire = "probe" /\ reply = "ConnectionError"
             /\ pc' # "exit" =>
                   /\ bridge_ip' = response'[2][1].internalipaddress
                   /\ pc' = "init_user" ]_vars
    /\ [](ip # None /\ bridge_ip = ip => "nupnp" \notin sent)
    /\ [](bridge_ip # None /\ "nupnp" \notin sent => bridge_ip = ip)

\* C9 witness: the probe of the candidate failed and the lookup named two
\* bridges; the address in use is the first.
C9_Witness ==
    /\ ip # None
    /\ "probe" \in sent
    /\ wire = "nupnp"
    /\ reply = "ok"
    /\ Len(response[2]) = 2
    /\ bridge_ip = response[2][1].internalipaddress
    /\ bridge_ip # response[2][2].internalipaddress

\* C10: a lookup that fails at connection level or names no bridge terminates
\* the process: no address is set, and neither a validation, a registration
\* request, the list of lights nor a poll was or will be sent.
C10_NoBridge ==
    /\ [][ wire' = "nupnp" /\ (reply' = "ConnectionError" \/ response'[2] = <<>>)
             => /\ pc' = "exit"
                /\ bridge_ip' = None ]_vars
    /\ [](pc = "exit" /\ wire = "nupnp"
            => /\ bridge_ip = None
               /\ username = None
               /\ lights = <<>>
               /\ sent \subseteq { "probe", "nupnp" })
    /\ Terminal

\* C10 witness: the candidate was unreachable, the lookup named no bridge, and
\* the process has terminated.
C10_Witness ==
    /\ pc = "exit"
    /\ ip # None
    /\ wire = "nupnp"
    /\ reply = "ok"
    /\ response[2] = <<>>

(***************************************************************************)
(* Properties of the constructed object and of the driver.                 *)
(***************************************************************************)
\* __init__ has returned: the process is in the loop of main
Initialized == pc \in { "main_loop", "poll_lights" }

\* C11 as stated: after a successful initialization update_file is set if and
\* only if the address or the username in use differs from the candidate
\* passed in, the candidate None of a run without configuration included.
C11_Original ==
    Initialized => (update_file <=> (bridge_ip # ip \/ username # user))

\* C11, amended: after a successful initialization update_file is set if and
\* only if a candidate that was supplied was rejected and replaced: a supplied
\* address whose probe failed, so that the lookup ran, or a supplied username
\* that was rejected, so that a registration ran.  An address or a username
\* obtained because no candidate was supplied does not set it, and it is not
\* set when both supplied candidates were accepted unchanged.
C11_Amended ==
    /\ Initialized =>
          (update_file <=> \/ ip # None /\ "nupnp" \in sent
                           \/ user # None /\ "register" \in sent)
    /\ Initialized /\ ip # None /\ user # None
                   /\ bridge_ip = ip /\ username = user
          => ~update_file
    /\ Initialized /\ ip = None /\ user = None => ~update_file

\* C11 witness: no address was supplied and the supplied username was
\* accepted: the address in use comes from the lookup, and update_file is not
\* set.
C11_Witness ==
    /\ Initialized
    /\ ip = None
    /\ bridge_ip # None
    /\ user # None
    /\ username = user
    /\ ~update_file

\* the step is the initial load, answered
LoadStep == pc = "get_lights" /\ wire' = "lights" /\ reply' = "ok"

\* the sequence ids is in strictly ascending string order
Ascending(ids) ==
    \A m \in 1..Len(ids) : \A n \in 1..Len(ids) :
        m < n => StrLess(ids[m], ids[n])

\* C12: the canonical order is the string order of the keys of the initial
\* load: light_ids holds exactly these keys, ascending as strings ("1", "10",
\* "2", and "10" before "2"), and the store is keyed in the same order.  Every
\* poll cycle, whatever happened before, starts with all of light_ids to
\* visit, each call of update_light is for the first id not yet visited and
\* takes it off, so that the ids still to visit are always a tail of
\* light_ids, and the cycle ends only when none is left.
C12_CanonicalOrder ==
    /\ [](sorted({ <<1>>, <<1, 0>>, <<2>> }) = << <<1>>, <<1, 0>>, <<2>> >>)
    /\ [][ LoadStep =>
             /\ { light_ids'[n] : n \in 1..Len(light_ids') }
                   = DOMAIN response'[2]
             /\ Len(light_ids') = Cardinality(DOMAIN response'[2])
             /\ Ascending(light_ids')
             /\ dict_keys(lights') = light_ids' ]_vars
    /\ [][ pc = "main_loop" /\ pc' = "poll_lights" => todo' = light_ids ]_vars
    /\ [](pc = "poll_lights" =>
            todo = SubSeq(light_ids, Len(light_ids) - Len(todo) + 1,
                          Len(light_ids)))
    /\ [][ UpdateStep =>
             /\ todo' = Tail(todo)
             /\ \A n \in 1..Len(events') : events'[n][1] = int(Head(todo)) ]_vars
    /\ [][ pc = "poll_lights" /\ pc' = "main_loop" => todo = <<>> ]_vars

\* C12 witness: the lights "10" and "2" are known; a cycle has visited "10"
\* and then "2", for which a change was printed.
C12_Witness ==
    /\ Updated
    /\ light_ids = << <<1, 0>>, <<2>> >>
    /\ todo = <<>>
    /\ events # <<>>
    /\ events[1][1] = 2

\* the raw brightness a bridge reports: an integer from 1 to 254
HueBri == 1..254

\* round(100 * (bri - 1) / 253) with halves rounded away from zero
round_half_away(bri) ==
    LET n == 100 * (bri - 1)
    IN  IF 2 * (n % 253) >= 253 THEN n \div 253 + 1 ELSE n \div 253

\* over the raw brightnesses 1..254 calc_brightness never decreases, is 0 at
\* 1 and 100 at 254, lies in 0..100, meets no exact half and so equals the
\* rounding of halves away from zero
Normalized ==
    /\ \A b \in HueBri \ {254} : calc_brightness(b) <= calc_brightness(b + 1)
    /\ \A a \in HueBri : \A b \in HueBri :
          a <= b => calc_brightness(a) <= calc_brightness(b)
    /\ calc_brightness(1) = 0
    /\ calc_brightness(254) = 100
    /\ \A b \in HueBri :
          /\ calc_brightness(b) \in 0..100
          /\ 2 * ((100 * (b - 1)) % 253) # 253
          /\ calc_brightness(b) = round_half_away(b)
    /\ RawBri \subseteq HueBri

\* C13: calc_brightness is normalized as above over 1..254; and in every state
\* every stored snapshot holds calc_brightness of a raw brightness the bridge
\* reported, hence a brightness in 0..100, after the load and after every
\* update.
C13_Brightness ==
    /\ Normalized
    /\ \A n \in 1..Len(lights) :
          LET light == stored(lights, lights[n][1])
          IN  /\ light.brightness \in { calc_brightness(b) : b \in RawBri }
              /\ light.brightness \in 0..100

\* C13 witness: an update has just stored a new brightness, the normalized
\* raw brightness of the answer.
C13_Witness ==
    /\ Updated
    /\ response[2].state.reachable
    /\ \E n \in 1..Len(events) : events[n][2] = " brightness"
    /\ stored(lights, LastKey).brightness
          = calc_brightness(response[2].state.bri)
    /\ stored(lights, LastKey).brightness \in 1..99

\* the step is a call of update_light whose fetch fails: no connection, or an
\* answer with an error status
FailedFetchStep ==
    /\ pc = "poll_lights"
    /\ wire' = "light"
    /\ reply' \in { "ConnectionError", "error_status" }

\* C14: a fetch of update_light that fails, at connection level or with an
\* error status, terminates the process: that step leaves the whole store as
\* it was and prints no change, the ids not yet visited stay unvisited, and
\* the terminated process takes no further step, so no id is reconciled and no
\* cycle runs afterwards.
C14_FetchFatal ==
    /\ [][ FailedFetchStep =>
             /\ pc' = "exit"
             /\ exit_msg' \in { NoResponse, HTTPError }
             /\ lights' = lights
             /\ events' = <<>>
             /\ todo' = todo
             /\ num_left' = num_left ]_vars
    /\ [](wire = "light" /\ reply # "ok" => pc = "exit")
    /\ Terminal

\* C14 witness: of two lights the first was reconciled and the fetch of the
\* second was answered with an error status; the process has terminated with
\* the second still to visit.
C14_Witness ==
    /\ pc = "exit"
    /\ wire = "light"
    /\ reply = "error_status"
    /\ Len(lights) = 2
    /\ Len(todo) = 1

\* the step is a call of update_light that ends in the usage error
InvalidLightStep == pc' = "exit" /\ exit_msg' = "is not a valid light."

\* the ids a direct call is made with that are in light_ids
KnownCallIds == { n \in 0..MaxCallId : list_has(light_ids, str(n)) }

\* the step is a direct call of update_light
DirectCallStep == pc = "main_loop" /\ (wire' = "light" \/ InvalidLightStep)

\* C15: a call of update_light with an id whose string is not in light_ids,
\* by any caller, terminates the process in that step, which sends no request,
\* prints nothing and leaves the store and the known ids as they were; a
\* direct call ends this way only if some id it can be made with is unknown,
\* and always when all of them are; and no call made by the loop of
\* poll_lights ends this way, its ids being the keys of the store, all of them
\* in light_ids.
C15_UnknownId ==
    /\ [][ InvalidLightStep =>
             /\ wire' = None
             /\ lights' = lights
             /\ events' = <<>>
             /\ light_ids' = light_ids ]_vars
    /\ [][ DirectCallStep =>
             /\ InvalidLightStep => KnownCallIds # 0..MaxCallId
             /\ KnownCallIds = {} => InvalidLightStep ]_vars
    /\ [][ pc = "poll_lights" => ~InvalidLightStep ]_vars
    /\ [](pc = "poll_lights" =>
            \A n \in 1..Len(todo) : list_has(light_ids, str(int(todo[n]))))
    /\ Terminal

\* C15 witness: the lights "10" and "2" are known and update_light was called
\* with another id: the process has terminated having sent nothing for it.
C15_Witness ==
    /\ pc = "exit"
    /\ exit_msg = "is not a valid light."
    /\ Len(light_ids) = 2
    /\ wire = None

\* C16: the session runs discovery, authentication, initial load, poll loop,
\* in this order.  A validation or a registration request is sent only with
\* an address in use; the list of lights is fetched only with an address and
\* a username in use, and once; update_light is called only after the list
\* was fetched, when the store holds one snapshot, under its own id, for each
\* of the num_lights ids of light_ids; and the loop of main is entered only
\* after all of that.
C16_StepOrder ==
    /\ [][ wire' \in { "validate", "register" } => bridge_ip # None ]_vars
    /\ [][ wire' = "lights" =>
             /\ bridge_ip # None
             /\ username # None
             /\ sent \cap { "lights", "light" } = {} ]_vars
    /\ [][ wire' = "light" \/ pc' = "poll_lights" =>
             /\ "lights" \in sent
             /\ bridge_ip # None
             /\ username # None
             /\ Len(lights) = num_lights
             /\ dict_keys(lights) = light_ids
             /\ \A n \in 1..Len(light_ids) :
                   stored(lights, light_ids[n]).id = light_ids[n] ]_vars
    /\ [](Initialized =>
            /\ bridge_ip # None
            /\ username # None
            /\ "lights" \in sent)
    /\ [](bridge_ip = None => sent \subseteq { "probe", "nupnp" })
    /\ [](username = None => sent \cap { "lights", "light" } = {})

\* C16 witness: without candidates, the lookup, the registration, the initial
\* load and a call of update_light have happened.
C16_Witness ==
    /\ Updated
    /\ ip = None
    /\ user = None
    /\ sent = { "nupnp", "register", "lights", "light" }

\* C17: poll cycles do not overlap and are spaced by the interval.  A cycle
\* ends only when update_light has returned for every id of it, and last_poll
\* is taken then; a cycle starts only from the loop of main, with nothing left
\* to visit and more than poll_interval elapsed since last_poll, which takes
\* more than poll_interval of sleeping after the end of the cycle before;
\* every other step of the loop of main is a sleep of one tick, which sends
\* no request, prints nothing and leaves the store and the ids as they were.
C17_Cycles ==
    /\ [][ pc = "poll_lights" /\ pc' = "main_loop" =>
             /\ todo = <<>>
             /\ since_poll' <= SleepTicks
             /\ since_poll' <= PollTicks ]_vars
    /\ [][ pc' = "poll_lights" /\ pc # "poll_lights" =>
             /\ pc = "main_loop"
             /\ todo = <<>>
             /\ since_poll > PollTicks ]_vars
    /\ [][ pc = "main_loop" /\ pc' = "main_loop" =>
             /\ since_poll' = since_poll + SleepTicks
             /\ wire' = None
             /\ sent' = sent
             /\ events' = <<>>
             /\ lights' = lights
             /\ light_ids' = light_ids
             /\ num_lights' = num_lights ]_vars
    /\ [][ pc = "main_loop" /\ pc' # "main_loop" =>
             pc' = "poll_lights" /\ wire' = None /\ lights' = lights ]_vars
    /\ [](pc = "main_loop" => todo = <<>>)

\* C17 witness: a cycle has run, the loop of main has slept for more than
\* poll_interval since, and the next cycle has just started.
C17_Witness ==
    /\ pc = "poll_lights"
    /\ wire = None
    /\ "light" \in sent
    /\ Len(todo) = 2
    /\ since_poll = PollTicks + 1

\* the step is a call of update_light that is not refused
CallStep == wire' = "light"

\* C18: the store is changed by update_light only, one light at a time.  A
\* call of update_light for an id leaves the keys of the store and their
\* order, every entry under another key, the id held by its own entry,
\* light_ids and num_lights as they were; after the initial load no other step
\* changes the store, and no step at all changes its keys, light_ids or
\* num_lights: the known ids stay those of the initial load.
C18_Frame ==
    /\ [][ CallStep =>
             /\ dict_keys(lights') = dict_keys(lights)
             /\ \A n \in 1..Len(lights) :
                   lights[n][1] # Head(todo) => lights'[n] = lights[n]
             /\ pc' # "exit" =>
                   stored(lights', Head(todo)).id = Head(todo)
             /\ light_ids' = light_ids
             /\ num_lights' = num_lights ]_vars
    /\ [][ Initialized /\ lights' # lights => UpdateStep ]_vars
    /\ [][ "lights" \in sent =>
             /\ dict_keys(lights') = dict_keys(lights)
             /\ light_ids' = light_ids
             /\ num_lights' = num_lights ]_vars
    /\ [][ "lights" \notin sent /\ lights' # lights => wire' = "lights" ]_vars
    /\ []("lights" \in sent =>
            { lights[n][1] : n \in 1..Len(lights) }
               = { light_ids[n] : n \in 1..Len(light_ids) })

\* C18 witness: of the lights "10" and "2", update_light has just changed the
\* entry of "10"; "2" is still to visit.
C18_Witness ==
    /\ Updated
    /\ dict_keys(lights) = << <<1, 0>>, <<2>> >>
    /\ todo = << <<2>> >>
    /\ Len(events) >= 2

\* C19: once the list of lights is loaded, num_lights is the number of
\* entries of the store and the number of light_ids.  A cycle starts with
\* num_lights calls to count and as many ids to visit, counts one per call that
\* returns, and ends in the loop of main only with none left of either: the
\* line 'Error: not all lights were updated' is never printed.  A cycle that
\* does not end so ends with the process.
C19_NumLights ==
    /\ []("lights" \in sent /\ pc # "exit" =>
            /\ num_lights = Len(lights)
            /\ num_lights = Len(light_ids))
    /\ [][ pc = "main_loop" /\ pc' = "poll_lights" =>
             num_left' = num_lights /\ Len(todo') = num_lights ]_vars
    /\ [](pc = "poll_lights" => num_left = Len(todo))
    /\ [][ UpdateStep => num_left' = num_left - 1 ]_vars
    /\ [][ pc = "poll_lights" /\ pc' = "main_loop" =>
             num_left = 0 /\ todo = <<>> /\ ~anomaly' ]_vars
    /\ [][ pc = "poll_lights" =>
             pc' \in { "poll_lights", "main_loop", "exit" } ]_vars
    /\ [](~anomaly)

\* C19 witness: a cycle over two lights has just run to completion, and no
\* anomaly was reported.
C19_Witness ==
    /\ pc = "main_loop"
    /\ "light" \in sent
    /\ since_poll = SleepTicks
    /\ num_lights = 2
    /\ num_left = 0
    /\ ~anomaly

====
